---- MODULE Spec2Model ----
(***************************************************************************)
(* Model of AxiosRestService (ticatec/axios-restful-service): the request  *)
(* pipeline (descriptor builder, pre-request hook, response decoder, data  *)
(* processor, post-response hook), the error normalizer, download and the  *)
(* progress-tracked upload.  One client instance, one call at a time.      *)
(***************************************************************************)
EXTENDS Integers, Sequences, FiniteSets, TLC

\* ------------------------------------------------------------------ bounds
\* longest short response body (in characters)
MaxLen == 1
\* most progressUpdate invocations during one asyncUpload
MaxProgress == 2
\* most cancel() invocations on one UploadProgress handle
MaxCancel == 2
\* most calls in flight at the same time on the one client instance
MaxCalls == 2

\* ------------------------------------------------------- program constants
TIMEOUT == 60000
HtmlSnippetLen == 200
CONTENT_TYPE_NAME == "Content-Type"
TYPE_JSON == "application/json"
TYPE_HTML == "text/html"

\* ------------------------------------------------------------ text values
\* A text is a sequence of characters.  " " is whitespace, "1" a digit and
\* "{" an opening brace: over this alphabet a trimmed non-empty text is valid
\* JSON exactly when it consists of digits.
Alphabet == {" ", "1", "{"}

Texts(n) == UNION {[1..k -> Alphabet] : k \in 0..n}

\* a body longer than the HTML snippet limit
LongText == [i \in 1..(HtmlSnippetLen + 1) |-> IF i = 1 THEN "{" ELSE "1"]

RECURSIVE trimStart(_)
trimStart(s) == IF s # <<>> /\ Head(s) = " " THEN trimStart(Tail(s)) ELSE s

RECURSIVE trimEnd(_)
trimEnd(s) ==
    IF s # <<>> /\ s[Len(s)] = " " THEN trimEnd(SubSeq(s, 1, Len(s) - 1)) ELSE s

\* String.prototype.trim
trim(s) == trimEnd(trimStart(s))

\* String.prototype.substring(0, n)
substring0(s, n) == IF Len(s) <= n THEN s ELSE SubSeq(s, 1, n)

\* JSON.parse accepts the text (already trimmed, non-empty)
JSONValid(s) == s # <<>> /\ \A i \in 1..Len(s) : s[i] = "1"

\* ------------------------------------------------------------- JS values
Undefined == [t |-> "undefined"]
Null == [t |-> "null"]
Str(s) == [s |-> s, t |-> "string"]
Num(s) == [s |-> s, t |-> "number"]
Obj == [t |-> "object"]

IsString(v) == v.t = "string"

\* bodies the transport can deliver: texts, or a non-text value (an object
\* the transport already parsed, a Blob)
Bodies == {Str(s) : s \in Texts(MaxLen) \cup {LongText}} \cup {Obj}

\* ---------------------------------------------------------- content types
NoHeader == "undefined"
ContentTypes == {"application/json; charset=utf-8", "text/html", "text/plain"}

\* String.prototype.includes on the content types above ("" and an absent
\* header include nothing; the optional chaining of contentType?.includes
\* yields undefined, which is falsy, for an absent content type)
includes(ct, marker) ==
    \/ ct = marker
    \/ ct = "application/json; charset=utf-8" /\ marker = TYPE_JSON

\* response headers: the two spellings of the content-type key the code reads
HeaderSets ==
    {h \in [ct : ContentTypes \cup {NoHeader}, CT : ContentTypes \cup {NoHeader}] :
        \/ (h.ct = NoHeader /\ h.CT # "text/plain")
        \/ (h.CT = NoHeader /\ h.ct # "text/plain")
        \/ (h.CT = "text/plain" /\ h.ct = "application/json; charset=utf-8")}

Statuses == {200, 302, 404}
STATUS_TEXT == "status text"

Responses ==
    [status : Statuses, headers : HeaderSets, data : Bodies]

\* --------------------------------------------------------------- failures
NoResponse == [status |-> 0, headers |-> [ct |-> NoHeader, CT |-> NoHeader], data |-> Undefined]

\* what the transport (or a caller-supplied function) throws: `response` and
\* `request` are the fields handleException inspects, `cancel` is what
\* axios.isCancel answers
Reason(response, request, code, message, cancel) ==
    [response |-> response, request |-> request, code |-> code,
     message |-> message, cancel |-> cancel, cls |-> "Error"]

TransportCodes ==
    {"ECONNABORTED", "ERR_NETWORK", "ERR_CANCELED", "ENOTFOUND", "ECONNREFUSED",
     "ETIMEDOUT", "undefined"}

\* the server answered and the transport raised the answer as an error
HttpReasons == {Reason(r, TRUE, "ERR_BAD_RESPONSE", "http", FALSE) : r \in Responses}
\* the request was sent and no response came back
NetworkReasons == {Reason(NoResponse, TRUE, c, "net", FALSE) : c \in TransportCodes}
\* the request was never sent
ConfigReasons == {Reason(NoResponse, FALSE, "ERR_BAD_OPTION", "cfg", FALSE)}
\* the request was cancelled (axios.isCancel is true)
CancelReasons == {Reason(NoResponse, q, "ERR_CANCELED", "canceled", TRUE) : q \in BOOLEAN}

TransportReasons == HttpReasons \cup NetworkReasons \cup ConfigReasons \cup CancelReasons

\* what a throwing caller-supplied function (hook, processor, callback) throws
Thrown(who) == Reason(NoResponse, FALSE, "undefined", who, FALSE)
SyntaxError == Thrown("SyntaxError")
SaveError == Thrown("save")

ApiError(status, details) == [status |-> status, cls |-> "ApiError", details |-> details]
NoError == [cls |-> "none"]

IsApiError(e) == e.cls = "ApiError"

\* ------------------------------------------------------- response decoder
Ok(v) == [ok |-> TRUE, val |-> v]
Throws == [ok |-> FALSE, val |-> Undefined]

\* parseResponseData that trims a textual body only when it is JSON
parseResponseDataJsonTrim(data, contentType) ==
    IF IsString(data) /\ includes(contentType, TYPE_JSON)
    THEN LET s == trim(data.s) IN
         IF Len(s) > 0
         THEN (IF JSONValid(s) THEN Ok(Num(s)) ELSE Throws)
         ELSE Ok(Null)
    ELSE Ok(data)

parseResponseData(data, contentType) ==
    IF IsString(data)
    THEN LET s == trim(data.s) IN
         IF includes(contentType, TYPE_JSON)
         THEN IF Len(s) > 0
              THEN (IF JSONValid(s) THEN Ok(Num(s)) ELSE Throws)
              ELSE Ok(Null)
         ELSE Ok(Str(s))
    ELSE Ok(data)

\* -------------------------------------------------------- error normalizer
\* a || b || '' on header values
orElse(a, b) == IF a # NoHeader /\ a # "" THEN a ELSE b

\* networkCode with the codes of two branches exchanged
networkCodeSwapped(code) ==
    CASE code = "ECONNABORTED" -> 101
      [] code = "ERR_NETWORK" -> 102
      [] code = "ERR_CANCELED" -> 103
      [] code = "ENOTFOUND" -> 105
      [] code = "ECONNREFUSED" -> 104
      [] OTHER -> 100

networkCode(code) ==
    CASE code = "ECONNABORTED" -> 101
      [] code = "ERR_NETWORK" -> 102
      [] code = "ERR_CANCELED" -> 103
      [] code = "ENOTFOUND" -> 104
      [] code = "ECONNREFUSED" -> 105
      [] OTHER -> 100

\* htmlContent without the truncation
htmlContentWhole(data) == IF IsString(data) THEN Str(data.s) ELSE Null

\* line 363
htmlContent(data) ==
    IF IsString(data) THEN Str(substring0(data.s, HtmlSnippetLen)) ELSE Null

httpDetails(response) ==
    LET status == response.status
        contentType == orElse(response.headers.CT, orElse(response.headers.ct, ""))
    IN  IF includes(contentType, TYPE_JSON)
        THEN LET parsed == parseResponseData(response.data, contentType) IN
             IF parsed.ok
             THEN parsed.val
             ELSE [code |-> status, message |-> <<STATUS_TEXT>>,
                   parseError |-> SyntaxError.message, raw |-> response.data]
        ELSE IF includes(contentType, TYPE_HTML)
        THEN [code |-> status,
              htmlContent |-> htmlContent(response.data)]
        ELSE [code |-> status, raw |-> response.data]

\* handleException that asks for the sent request before the response
handleExceptionRequestFirst(reason) ==
    IF reason.request
    THEN ApiError(-1, [code |-> networkCode(reason.code), networkError |-> TRUE,
                       originalCode |-> reason.code, originalMessage |-> reason.message])
    ELSE IF reason.response # NoResponse
    THEN ApiError(reason.response.status, httpDetails(reason.response))
    ELSE ApiError(-1, [code |-> 106,
                       message |-> <<"Configration error: ", reason.message>>,
                       originalMessage |-> reason.message, configError |-> TRUE])

handleException(reason) ==
    IF reason.response # NoResponse
    THEN ApiError(reason.response.status, httpDetails(reason.response))
    ELSE IF reason.request
    THEN ApiError(-1, [code |-> networkCode(reason.code), networkError |-> TRUE,
                       originalCode |-> reason.code, originalMessage |-> reason.message])
    ELSE ApiError(-1, [code |-> 106,
                       message |-> <<"Configration error: ", reason.message>>,
                       originalMessage |-> reason.message, configError |-> TRUE])

\* ------------------------------------------------------ request descriptor
\* the base URL the client was constructed with and the paths callers pass,
\* as sequences of pieces: the base ends in a slash, the path starts with one
root == <<"https://api.example.com", "/">>
Paths == {<<"/", "users">>}

\* requestUrl that joins base and path with exactly one slash
requestUrlNormalized(url) ==
    IF root[Len(root)] = "/" /\ url # <<>> /\ url[1] = "/"
    THEN root \o Tail(url)
    ELSE root \o url

\* `${this.root}${url}`
requestUrl(url) == root \o url
Params == {"query"}

\* request bodies a caller passes: nothing, a falsy value ("" or 0), a payload
DataNull == <<"null">>
DataFalsy == <<"">>
DataPayload == <<"payload">>
DataValues == {DataNull, DataFalsy, DataPayload}
NoData == <<"undefined">>
FormData(fileKey) == <<"FormData", fileKey, "file">>
FileKeys == {"filename", "doc"}

Truthy(data) == data \notin {DataNull, DataFalsy, NoData}

CallContentTypes == {TYPE_JSON, "application/xml"}

HeaderKeys == {CONTENT_TYPE_NAME, "Authorization"}
NoHeaders == [k \in HeaderKeys |-> NoHeader]
\* line 76: options.headers is the (non-nullish) headers object itself
HeadersObject == "[object headers]"

toLowerCase(method) ==
    CASE method = "GET" -> "get"
      [] method = "POST" -> "post"
      [] method = "PUT" -> "put"
      [] method = "DELETE" -> "delete"
      [] OTHER -> method

\* what one invocation of the pre-request hook does: absent hook, throws,
\* returns null, or returns a PreInterceptorResult (timeout 0: not provided)
PreAbsent == [headers |-> NoHeaders, kind |-> "absent", timeout |-> 0]
PreThrows == [headers |-> NoHeaders, kind |-> "throws", timeout |-> 0]
PreNull == [headers |-> NoHeaders, kind |-> "null", timeout |-> 0]
\* a result with a header and no timeout, one with two headers and a timeout
PreResults ==
    {[headers |-> [NoHeaders EXCEPT !["Authorization"] = "Bearer t"],
      kind |-> "result", timeout |-> 0],
     [headers |-> [NoHeaders EXCEPT !["Authorization"] = "Bearer t",
                                    ![CONTENT_TYPE_NAME] = "text/xml"],
      kind |-> "result", timeout |-> 5000]}
PreOutcomes == {PreThrows, PreNull} \cup PreResults
\* every value preprocessHeaders can be given
PreInputs == PreOutcomes \cup {PreAbsent}

NoConf ==
    [headers |-> NoHeaders, data |-> NoData, method |-> "undefined", timeout |-> 0,
     url |-> <<>>, params |-> "undefined", withCredentials |-> FALSE,
     responseType |-> "undefined", cancelToken |-> FALSE, onUploadProgress |-> FALSE]

\* preprocessHeaders that replaces the descriptor's headers by the hook's
preprocessHeadersReplacing(options, interceptorResult) ==
    IF interceptorResult.kind = "result"
    THEN [options EXCEPT
            !.headers = interceptorResult.headers,
            !.timeout = IF interceptorResult.timeout # 0
                        THEN interceptorResult.timeout ELSE TIMEOUT]
    ELSE [options EXCEPT !.timeout = TIMEOUT]

\* interceptorResult is the value preInvoke returned (PreAbsent when the hook
\* is null); a throwing hook never reaches this point
preprocessHeaders(options, interceptorResult) ==
    IF interceptorResult.kind = "result"
    THEN [options EXCEPT
            !.headers = [k \in HeaderKeys |->
                            IF interceptorResult.headers[k] # NoHeader
                            THEN interceptorResult.headers[k]
                            ELSE options.headers[k]],
            !.timeout = IF interceptorResult.timeout # 0
                        THEN interceptorResult.timeout ELSE TIMEOUT]
    ELSE [options EXCEPT !.timeout = TIMEOUT]

\* buildAxiosRequest that attaches the body in serialized form
buildAxiosRequestSerializing(url, method, params, data, contentType, interceptorResult) ==
    LET options == [NoConf EXCEPT
                      !.method = toLowerCase(method),
                      !.url = requestUrl(url),
                      !.params = params,
                      !.withCredentials = TRUE,
                      !.data = IF Truthy(data) THEN <<"JSON.stringify", data>> ELSE NoData]
        withType == [options EXCEPT !.headers[CONTENT_TYPE_NAME] = HeadersObject]
    IN  preprocessHeaders(withType, interceptorResult)

buildAxiosRequest(url, method, params, data, contentType, interceptorResult) ==
    LET options == [NoConf EXCEPT
                      !.method = toLowerCase(method),
                      !.url = requestUrl(url),
                      !.params = params,
                      !.withCredentials = TRUE,
                      !.data = IF Truthy(data) THEN data ELSE NoData]
        \* options.headers ?? contentType: the headers object is never nullish
        withType == [options EXCEPT !.headers[CONTENT_TYPE_NAME] = HeadersObject]
    IN  preprocessHeaders(withType, interceptorResult)

\* buildUploadOption that leaves params out of the descriptor
buildUploadOptionNoQuery(url, params, interceptorResult) ==
    LET options == [NoConf EXCEPT
                      !.method = "POST",
                      !.url = requestUrl(url),
                      !.withCredentials = TRUE,
                      !.headers[CONTENT_TYPE_NAME] = "multipart/form-data"]
    IN  preprocessHeaders(options, interceptorResult)

buildUploadOption(url, params, interceptorResult) ==
    LET options == [NoConf EXCEPT
                      !.method = "POST",
                      !.url = requestUrl(url),
                      !.params = params,
                      !.withCredentials = TRUE,
                      !.headers[CONTENT_TYPE_NAME] = "multipart/form-data"]
    IN  preprocessHeaders(options, interceptorResult)

\* --------------------------------------------------------- call outcomes
Pending == [val |-> Undefined, kind |-> "pending", err |-> NoError]
Resolved(v) == [val |-> v, kind |-> "resolved", err |-> NoError]
Rejected(e) == [val |-> Undefined, kind |-> "rejected", err |-> e]

\* the value a caller-supplied function f returns for argument v
Apply(f, v) == [t |-> "apply", f |-> f, arg |-> v]
\* the UploadProgress handle {cancel}
Handle == [t |-> "UploadProgress"]

\* a ?? b on header values
nullish(a, b) == IF a = NoHeader THEN b ELSE a

\* what the transport answers to one request
NoReason == Thrown("none")
Returned(r) == [response |-> r, reason |-> NoReason, kind |-> "response"]
Raised(x) == [response |-> NoResponse, reason |-> x, kind |-> "reason"]
NoResult == [response |-> NoResponse, reason |-> NoReason, kind |-> "none"]
TransportResults == {Returned(r) : r \in Responses} \cup {Raised(x) : x \in TransportReasons}

\* one step of a routine: where it goes next, the value or error it carries
\* and the observable events it produced, in order
Step(next, data, ex, events) == [data |-> data, next |-> next, ex |-> ex, events |-> events]

\* Caught that sends the request once more before it gives up
CaughtRetrying(reason, events) ==
    Step("raise", Undefined, handleException(reason), events \o <<"transport", "ApiError">>)

\* catch (reason) { ex = this.handleException(reason) }
Caught(reason, events) == Step("raise", Undefined, handleException(reason), events \o <<"ApiError">>)

\* applyProcessor that forgets the data processor
applyProcessorSkipped(hasProc, data) == data

\* fetchData, lines 114-117
applyProcessor(hasProc, data) == IF hasProc THEN Apply("dataProcessor", data) ELSE data

\* fetchDataResponse that runs the data processor outside the try block
fetchDataResponseProcRaw(response, hasProc, procThrows, hasPost) ==
    LET parsed == parseResponseData(response.data, nullish(response.headers.CT, TYPE_JSON)) IN
    IF ~parsed.ok THEN Caught(SyntaxError, <<>>)
    ELSE IF response.status < 300
    THEN IF hasProc /\ procThrows
         THEN Step("raise", Undefined, Thrown("dataProcessor"), <<"dataProcessor">>)
         ELSE LET data == applyProcessor(hasProc, parsed.val)
                  events == IF hasProc THEN <<"dataProcessor">> ELSE <<>>
              IN  IF hasPost
                  THEN Step("awaitPost", data, NoError, events \o <<"postInvoke">>)
                  ELSE Step("return", data, NoError, events)
    ELSE IF response.status >= 400
    THEN Step("raise", Undefined, ApiError(response.status, parsed.val), <<"ApiError">>)
    ELSE Step("return", Undefined, NoError, <<>>)

\* fetchData, lines 112-124: the response arrived
fetchDataResponse(response, hasProc, procThrows, hasPost) ==
    LET parsed == parseResponseData(response.data, nullish(response.headers.CT, TYPE_JSON)) IN
    IF ~parsed.ok THEN Caught(SyntaxError, <<>>)
    ELSE IF response.status < 300
    THEN IF hasProc /\ procThrows THEN Caught(Thrown("dataProcessor"), <<"dataProcessor">>)
         ELSE LET data == applyProcessor(hasProc, parsed.val)
                  events == IF hasProc THEN <<"dataProcessor">> ELSE <<>>
              IN  IF hasPost
                  THEN Step("awaitPost", data, NoError, events \o <<"postInvoke">>)
                  ELSE Step("return", data, NoError, events)
    ELSE IF response.status >= 400
    THEN Step("raise", Undefined, ApiError(response.status, parsed.val), <<"ApiError">>)
    ELSE Step("return", Undefined, NoError, <<>>)

\* fetchData, lines 110-127: the awaited transport call settled
fetchDataSettled(result, hasProc, procThrows, hasPost) ==
    IF result.kind = "response"
    THEN fetchDataResponse(result.response, hasProc, procThrows, hasPost)
    ELSE Caught(result.reason, <<>>)

\* fetchDataPosted that lets the rejection of the hook escape as it is
fetchDataPostedRaw(data, rejects) ==
    IF rejects THEN Step("raise", Undefined, Thrown("postInvoke"), <<>>)
    ELSE Step("return", Apply("postInvoke", data), NoError, <<>>)

\* fetchData, lines 119-127: the awaited post-response hook settled
fetchDataPosted(data, rejects) ==
    IF rejects THEN Caught(Thrown("postInvoke"), <<>>)
    ELSE Step("return", Apply("postInvoke", data), NoError, <<>>)

\* what one invocation of the error hook does
ErrorHandlerOutcomes == {"true", "false", "throws"}
\* the outcomes to consider for a hook that is present or null
HookChoices(present) == IF present THEN ErrorHandlerOutcomes ELSE {"none"}
\* whether a caller-supplied function throws, when there is one
ThrowChoices(present) == IF present THEN BOOLEAN ELSE {FALSE}

\* raise that lets a hook answering true swallow the error
raiseUnlessHandled(ex, hasHandler, ret) ==
    IF hasHandler
    THEN IF ret = "throws"
         THEN [events |-> <<"errorHandler">>, outcome |-> Rejected(Thrown("errorHandler"))]
         ELSE IF ret = "true"
         THEN [events |-> <<"errorHandler">>, outcome |-> Resolved(Undefined)]
         ELSE [events |-> <<"errorHandler", "throw">>, outcome |-> Rejected(ex)]
    ELSE [events |-> <<"throw">>, outcome |-> Rejected(ex)]

\* raise that hands the error to the hook a second time, as a caller that
\* catches and normalizes again would
raiseTwice(ex, hasHandler, ret) ==
    IF hasHandler
    THEN IF ret = "throws"
         THEN [events |-> <<"errorHandler">>, outcome |-> Rejected(Thrown("errorHandler"))]
         ELSE [events |-> <<"errorHandler", "errorHandler", "throw">>, outcome |-> Rejected(ex)]
    ELSE [events |-> <<"throw">>, outcome |-> Rejected(ex)]

\* fetchData lines 128-131, download lines 283-286: hand ex to the error hook,
\* then throw it
raise(ex, hasHandler, ret) ==
    IF hasHandler
    THEN IF ret = "throws"
         THEN [events |-> <<"errorHandler">>, outcome |-> Rejected(Thrown("errorHandler"))]
         ELSE [events |-> <<"errorHandler", "throw">>, outcome |-> Rejected(ex)]
    ELSE [events |-> <<"throw">>, outcome |-> Rejected(ex)]

\* downloadSettled that lets a failure of the save escape as it was raised
downloadSettledSaveRaw(result, saveThrows) ==
    IF result.kind = "response"
    THEN IF saveThrows THEN Step("raise", Undefined, SaveError, <<"save">>)
         ELSE Step("return", Undefined, NoError, <<"save">>)
    ELSE Caught(result.reason, <<>>)

\* downloadSettled that swallows a failure of the request
downloadSettledQuiet(result, saveThrows) ==
    IF result.kind = "response"
    THEN IF saveThrows THEN Caught(SaveError, <<"save">>)
         ELSE Step("return", Undefined, NoError, <<"save">>)
    ELSE Step("return", Undefined, NoError, <<>>)

\* download, lines 272-287: the awaited transport call settled
downloadSettled(result, saveThrows) ==
    IF result.kind = "response"
    THEN IF saveThrows THEN Caught(SaveError, <<"save">>)
         ELSE Step("return", Undefined, NoError, <<"save">>)
    ELSE Caught(result.reason, <<>>)

\* the callback object of asyncUpload: null, or which handlers it supplies
NoCallback == [present |-> FALSE, progressUpdate |-> FALSE, onCompleted |-> FALSE, handleError |-> FALSE]
FullCallback == [present |-> TRUE, progressUpdate |-> TRUE, onCompleted |-> TRUE, handleError |-> TRUE]
EmptyCallback == [NoCallback EXCEPT !.present = TRUE]
Callbacks == {NoCallback, EmptyCallback, FullCallback}

NotCalled == [t |-> "not called"]

\* asyncUploadCatch that rethrows what it could not report
asyncUploadCatchRethrow(reason, cb, errorThrows, events, completedWith) ==
    IF ~reason.cancel
    THEN LET ex == handleException(reason) IN
         IF cb.present /\ cb.handleError
         THEN [events |-> events \o <<"ApiError", "handleError">>,
               outcome |-> IF errorThrows THEN Rejected(Thrown("handleError")) ELSE Resolved(Handle),
               completedWith |-> completedWith, errorWith |-> ex]
         ELSE [events |-> events \o <<"ApiError">>, outcome |-> Rejected(ex),
               completedWith |-> completedWith, errorWith |-> NoError]
    ELSE [events |-> events, outcome |-> Resolved(Handle),
          completedWith |-> completedWith, errorWith |-> NoError]

\* asyncUpload, lines 245-252: catch (ex)
asyncUploadCatch(reason, cb, errorThrows, events, completedWith) ==
    IF ~reason.cancel
    THEN LET ex == handleException(reason) IN
         IF cb.present /\ cb.handleError
         THEN [events |-> events \o <<"ApiError", "handleError">>,
               outcome |-> IF errorThrows THEN Rejected(Thrown("handleError")) ELSE Resolved(Handle),
               completedWith |-> completedWith, errorWith |-> ex]
         ELSE [events |-> events \o <<"ApiError">>, outcome |-> Resolved(Handle),
               completedWith |-> completedWith, errorWith |-> NoError]
    ELSE [events |-> events, outcome |-> Resolved(Handle),
          completedWith |-> completedWith, errorWith |-> NoError]

\* asyncUploadSettled that also hands a failure to the client's error hook
asyncUploadSettledHooked(result, cb, completedThrows, errorThrows) ==
    IF result.kind = "response"
    THEN IF cb.present /\ cb.onCompleted
         THEN IF completedThrows
              THEN asyncUploadCatch(Thrown("onCompleted"), cb, errorThrows,
                                    <<"onCompleted">>, result.response.data)
              ELSE [events |-> <<"onCompleted">>, outcome |-> Resolved(Handle),
                    completedWith |-> result.response.data, errorWith |-> NoError]
         ELSE [events |-> <<>>, outcome |-> Resolved(Handle),
               completedWith |-> NotCalled, errorWith |-> NoError]
    ELSE LET r == asyncUploadCatch(result.reason, cb, errorThrows, <<>>, NotCalled) IN
         [r EXCEPT !.events = r.events \o <<"errorHandler">>]

\* asyncUpload, lines 242-253: the awaited transport call settled
asyncUploadSettled(result, cb, completedThrows, errorThrows) ==
    IF result.kind = "response"
    THEN IF cb.present /\ cb.onCompleted
         THEN IF completedThrows
              THEN asyncUploadCatch(Thrown("onCompleted"), cb, errorThrows,
                                    <<"onCompleted">>, result.response.data)
              ELSE [events |-> <<"onCompleted">>, outcome |-> Resolved(Handle),
                    completedWith |-> result.response.data, errorWith |-> NoError]
         ELSE [events |-> <<>>, outcome |-> Resolved(Handle),
               completedWith |-> NotCalled, errorWith |-> NoError]
    ELSE asyncUploadCatch(result.reason, cb, errorThrows, <<>>, NotCalled)

\* progressPercent that truncates instead of rounding
progressPercentFloor(loaded, total) == (loaded * 100) \div total

\* Math.round(loaded * 100 / total) for non-negative loaded and positive total
progressPercent(loaded, total) == (2 * loaded * 100 + total) \div (2 * total)

\* progress events the transport delivers: total 0 is an unknown total
\* (one upload has one total: the size of its body, 3 here)
ProgressEvents == {[loaded |-> 1, total |-> 0], [loaded |-> 2, total |-> 3], [loaded |-> 3, total |-> 3]}

\* ------------------------------------------------------------------ state
VARIABLES
    client,        \* the hooks the client was constructed with (present or null)
    pc,            \* position of the call: idle, awaitTransport, awaitPost, done
    call,          \* the operation invoked and its per-call arguments
    args,          \* what the caller passed and the hook returned, while in flight
    axiosConf,     \* the request descriptor the transport is working on
    result,        \* what the transport answered
    pending,       \* the value handed to the awaited post-response hook
    outcome,       \* how the promise returned to the caller settled
    log,           \* observable events of the call, in order
    apiErr,        \* the ApiError built by the call
    hookRet,       \* what the error hook did when invoked
    handle,        \* the caller holds the UploadProgress handle
    cancelCalls,   \* invocations of handle.cancel()
    cancelled,     \* the cancel token carries a reason
    progress,      \* the calls of progressUpdate in order: the event, the percentage passed
    completedWith, \* argument onCompleted was invoked with
    errorWith,     \* argument handleError was invoked with
    saved,         \* what download handed to the browser's save
    flights,       \* calls in flight at the same time: the locals of each
    debug,         \* AxiosRestService.debug, the process-wide flag
    console        \* something was written to the console

vars == <<client, pc, call, args, axiosConf, result, pending, outcome, log, apiErr, hookRet,
          handle, cancelCalls, cancelled, progress, completedWith, errorWith, saved,
          flights, debug, console>>

concurrentVars == <<flights, debug, console>>

uploadVars == <<handle, cancelCalls, cancelled, progress, completedWith, errorWith>>

FetchOps == {"get", "post", "put", "del", "upload"}
Ops == FetchOps \cup {"asyncUpload", "download"}

NoCall == [hasProc |-> FALSE, cb |-> NoCallback, op |-> "none", filename |-> "undefined"]
\* the arguments of the call in flight and the value preInvoke returned
NoArgs ==
    [data |-> NoData, contentType |-> "undefined", fileKey |-> "undefined",
     method |-> "undefined", url |-> <<>>, params |-> "undefined",
     interceptorResult |-> PreAbsent]
Args(url, method, params, data, contentType, fileKey) ==
    [data |-> data, contentType |-> contentType, fileKey |-> fileKey,
     method |-> method, url |-> url, params |-> params,
     interceptorResult |-> PreAbsent]

NotSaved == [data |-> Undefined, filename |-> "undefined", type |-> NoHeader]

\* the slots for calls in flight at the same time
Slots == 1..MaxCalls
\* the locals of one call: what it was given (pre, res, ret, rejects), what it
\* built and produced (conf, pending, outcome, events) and its cancel token
NoFlight ==
    [events |-> <<>>, rejects |-> FALSE, ret |-> "none", outcome |-> Pending,
     pc |-> "idle", pending |-> Undefined, op |-> "none", pre |-> PreAbsent,
     res |-> NoResult, conf |-> NoConf, token |-> FALSE, cancelCalled |-> FALSE]

Init ==
    /\ client \in [errorHandler : BOOLEAN, preInvoke : BOOLEAN, postInvoke : BOOLEAN]
    /\ pc = "idle"
    /\ call = NoCall
    /\ args = NoArgs
    /\ axiosConf = NoConf
    /\ result = NoResult
    /\ pending = Undefined
    /\ outcome = Pending
    /\ log = <<>>
    /\ apiErr = NoError
    /\ hookRet = "none"
    /\ handle = FALSE
    /\ cancelCalls = 0
    /\ cancelled = FALSE
    /\ progress = <<>>
    /\ completedWith = NotCalled
    /\ errorWith = NoError
    /\ saved = NotSaved
    /\ flights = [i \in Slots |-> NoFlight]
    /\ debug = FALSE
    /\ console = FALSE

\* the synchronous head of every operation: the descriptor is built (the
\* pre-request hook runs inside preprocessHeaders) and handed to the transport
\* (Build maps what the hook returned to the descriptor built)
Begin(c, a, Build) ==
    /\ pc = "idle"
    /\ call' = c
    /\ \E pre \in (IF client.preInvoke THEN PreOutcomes ELSE {PreAbsent}) :
         LET events == IF client.preInvoke THEN <<"preInvoke">> ELSE <<>> IN
         IF pre.kind = "throws"
         THEN /\ pc' = "done"
              /\ outcome' = Rejected(Thrown("preInvoke"))
              /\ axiosConf' = NoConf
              /\ args' = NoArgs
              /\ log' = events
         ELSE /\ pc' = "awaitTransport"
              /\ outcome' = Pending
              /\ axiosConf' = Build[pre]
              /\ args' = [a EXCEPT !.interceptorResult = pre]
              /\ log' = events \o <<"transport">>
    /\ UNCHANGED <<concurrentVars, client, result, pending, apiErr, hookRet, saved, uploadVars>>

VerbCall(op, hasProc) == [hasProc |-> hasProc, cb |-> NoCallback, op |-> op, filename |-> "undefined"]

get ==
    \E url \in Paths, params \in Params, hasProc \in BOOLEAN :
        LET Build == [pre \in PreInputs |->
                        buildAxiosRequest(url, "GET", params, DataNull, TYPE_JSON, pre)]
        IN  Begin(VerbCall("get", hasProc),
                  Args(url, "GET", params, DataNull, TYPE_JSON, "undefined"), Build)

post ==
    \E url \in Paths, data \in DataValues, contentType \in CallContentTypes, hasProc \in BOOLEAN :
        LET Build == [pre \in PreInputs |->
                        buildAxiosRequest(url, "POST", "null", data, contentType, pre)]
        IN  Begin(VerbCall("post", hasProc),
                  Args(url, "POST", "null", data, contentType, "undefined"), Build)

put ==
    \E url \in Paths, data \in DataValues, contentType \in CallContentTypes, hasProc \in BOOLEAN :
        LET Build == [pre \in PreInputs |->
                        buildAxiosRequest(url, "PUT", "null", data, contentType, pre)]
        IN  Begin(VerbCall("put", hasProc),
                  Args(url, "PUT", "null", data, contentType, "undefined"), Build)

del ==
    \E url \in Paths, data \in DataValues, contentType \in CallContentTypes, hasProc \in BOOLEAN :
        LET Build == [pre \in PreInputs |->
                        buildAxiosRequest(url, "DELETE", "null", data, contentType, pre)]
        IN  Begin(VerbCall("del", hasProc),
                  Args(url, "DELETE", "null", data, contentType, "undefined"), Build)

upload ==
    \E url \in Paths, params \in Params, fileKey \in FileKeys, hasProc \in BOOLEAN :
        LET Build == [pre \in PreInputs |->
                        [buildUploadOption(url, params, pre) EXCEPT !.data = FormData(fileKey)]]
        IN  Begin(VerbCall("upload", hasProc),
                  Args(url, "POST", params, NoData, "undefined", fileKey), Build)

\* asyncUpload, lines 231-243: axios.post(url, formData, axiosConf)
asyncUploadRequest(url, params, fileKey, interceptorResult) ==
    [buildUploadOption(url, params, interceptorResult) EXCEPT
        !.onUploadProgress = TRUE,
        !.cancelToken = TRUE,
        !.method = "post",
        !.url = requestUrl(url),
        !.data = FormData(fileKey)]

asyncUpload ==
    \E url \in Paths, params \in Params, fileKey \in FileKeys, cb \in Callbacks :
        LET Build == [pre \in PreInputs |->
                        asyncUploadRequest(url, params, fileKey, pre)]
        IN  Begin([hasProc |-> FALSE, cb |-> cb, op |-> "asyncUpload", filename |-> "undefined"],
                  Args(url, "POST", params, NoData, "undefined", fileKey), Build)

DownloadMethods == {"get", "POST"}

download ==
    \E url \in Paths, params \in Params, method \in DownloadMethods, formData \in DataValues :
        LET Build == [pre \in PreInputs |->
                        [buildAxiosRequest(url, method, params, formData, TYPE_JSON, pre)
                            EXCEPT !.responseType = "blob"]]
        IN  Begin([hasProc |-> FALSE, cb |-> NoCallback, op |-> "download",
                   filename |-> "report.pdf"],
                  Args(url, method, params, formData, TYPE_JSON, "undefined"), Build)

\* a routine step st of a verb or download call takes effect; ret is what the
\* error hook does if it gets invoked
Continue(st, ret) ==
    /\ apiErr' = IF st.ex # NoError THEN st.ex ELSE apiErr
    /\ CASE st.next = "awaitPost" ->
              /\ pc' = "awaitPost"
              /\ pending' = st.data
              /\ outcome' = outcome
              /\ log' = log \o st.events
              /\ hookRet' = hookRet
         [] st.next = "return" ->
              /\ pc' = "done"
              /\ pending' = Undefined
              /\ outcome' = Resolved(st.data)
              /\ log' = log \o st.events
              /\ hookRet' = hookRet
         [] st.next = "raise" ->
              LET r == raise(st.ex, client.errorHandler, ret) IN
              /\ pc' = "done"
              /\ pending' = Undefined
              /\ outcome' = r.outcome
              /\ log' = log \o st.events \o r.events
              /\ hookRet' = IF client.errorHandler THEN ret ELSE hookRet

\* the transport settles the request of a get/post/put/del/upload call and
\* fetchData runs on to its next await or to its end
fetchData ==
    /\ pc = "awaitTransport"
    /\ call.op \in FetchOps
    /\ \E res \in TransportResults, procThrows \in ThrowChoices(call.hasProc),
          ret \in HookChoices(client.errorHandler) :
         /\ result' = res
         /\ Continue(fetchDataSettled(res, call.hasProc, procThrows, client.postInvoke), ret)
    /\ axiosConf' = NoConf
    /\ args' = NoArgs
    /\ UNCHANGED <<concurrentVars, client, call, saved, uploadVars>>

\* the awaited post-response hook settles and fetchData runs to its end
fetchDataPostInvoke ==
    /\ pc = "awaitPost"
    /\ \E rejects \in BOOLEAN, ret \in HookChoices(client.errorHandler) :
         Continue(fetchDataPosted(pending, rejects), ret)
    /\ UNCHANGED <<concurrentVars, client, call, args, axiosConf, result, saved, uploadVars>>

\* the transport settles the request of a download call
downloadResume ==
    /\ pc = "awaitTransport"
    /\ call.op = "download"
    /\ \E res \in TransportResults, saveThrows \in BOOLEAN,
          ret \in HookChoices(client.errorHandler) :
         LET st == downloadSettled(res, saveThrows) IN
         /\ result' = res
         /\ Continue(st, ret)
         /\ saved' = IF st.next = "return"
                     THEN [data |-> res.response.data, filename |-> call.filename,
                           type |-> res.response.headers.ct]
                     ELSE saved
    /\ axiosConf' = NoConf
    /\ args' = NoArgs
    /\ UNCHANGED <<concurrentVars, client, call, uploadVars>>

\* the transport delivers a progress event to axiosConf.onUploadProgress
onUploadProgress ==
    /\ pc = "awaitTransport"
    /\ call.op = "asyncUpload"
    /\ Len(progress) < MaxProgress
    /\ \E progressEvent \in ProgressEvents :
         IF progressEvent.total # 0 /\ call.cb.present /\ call.cb.progressUpdate
         THEN /\ progress' = Append(progress,
                   [loaded |-> progressEvent.loaded, total |-> progressEvent.total,
                    percent |-> progressPercent(progressEvent.loaded, progressEvent.total)])
              /\ log' = Append(log, "progressUpdate")
         ELSE UNCHANGED <<progress, log>>
    /\ UNCHANGED <<concurrentVars, client, pc, call, args, axiosConf, result, pending, outcome, apiErr, hookRet,
                   handle, cancelCalls, cancelled, completedWith, errorWith, saved>>

\* the transport settles the request of an asyncUpload call; the handle is
\* returned to the caller when asyncUpload returns
asyncUploadResume ==
    /\ pc = "awaitTransport"
    /\ call.op = "asyncUpload"
    /\ \E res \in TransportResults, completedThrows \in ThrowChoices(call.cb.onCompleted),
          errorThrows \in ThrowChoices(call.cb.handleError) :
         LET r == asyncUploadSettled(res, call.cb, completedThrows, errorThrows) IN
         /\ result' = res
         /\ outcome' = r.outcome
         /\ log' = log \o r.events
         /\ completedWith' = r.completedWith
         /\ errorWith' = r.errorWith
         /\ apiErr' = IF \E i \in 1..Len(r.events) : r.events[i] = "ApiError"
                      THEN (IF res.kind = "response"
                            THEN handleException(Thrown("onCompleted"))
                            ELSE handleException(res.reason))
                      ELSE apiErr
         /\ handle' = (r.outcome.kind = "resolved")
    /\ pc' = "done"
    /\ axiosConf' = NoConf
    /\ args' = NoArgs
    /\ UNCHANGED <<concurrentVars, client, call, pending, hookRet, cancelCalls, cancelled, progress, saved>>

\* cancel that reports the cancellation through the error callback
cancelReporting ==
    /\ handle
    /\ cancelCalls < MaxCancel
    /\ cancelCalls' = cancelCalls + 1
    /\ cancelled' = TRUE
    /\ log' = IF call.cb.present /\ call.cb.handleError THEN Append(log, "handleError") ELSE log
    /\ UNCHANGED <<concurrentVars, client, pc, call, args, axiosConf, result, pending, outcome, apiErr, hookRet,
                   handle, progress, completedWith, errorWith, saved>>

\* the caller invokes cancel() of the UploadProgress handle it holds
cancel ==
    /\ handle
    /\ cancelCalls < MaxCancel
    /\ cancelCalls' = cancelCalls + 1
    /\ cancelled' = TRUE
    /\ UNCHANGED <<concurrentVars, client, pc, call, args, axiosConf, result, pending, outcome, log, apiErr, hookRet,
                   handle, progress, completedWith, errorWith, saved>>

\* the caller is done with the settled call and the client is used again
NewCall ==
    /\ pc = "done"
    /\ pc' = "idle"
    /\ call' = NoCall
    /\ args' = NoArgs
    /\ axiosConf' = NoConf
    /\ result' = NoResult
    /\ pending' = Undefined
    /\ outcome' = Pending
    /\ log' = <<>>
    /\ apiErr' = NoError
    /\ hookRet' = "none"
    /\ handle' = FALSE
    /\ cancelCalls' = 0
    /\ cancelled' = FALSE
    /\ progress' = <<>>
    /\ completedWith' = NotCalled
    /\ errorWith' = NoError
    /\ saved' = NotSaved
    /\ UNCHANGED <<concurrentVars, client>>

Next ==
    \/ get
    \/ post
    \/ put
    \/ del
    \/ upload
    \/ asyncUpload
    \/ download
    \/ fetchData
    \/ fetchDataPostInvoke
    \/ downloadResume
    \/ onUploadProgress
    \/ asyncUploadResume
    \/ cancel
    \/ NewCall

Spec == Init /\ [][Next]_vars

\* ------------------------------------------- several calls on one client
\* the variables of the one-call-at-a-time view above
callVars == <<pc, call, args, axiosConf, result, pending, outcome, log, apiErr, hookRet,
              saved, uploadVars>>

\* what the pre-request hook does in these calls: throws, or returns headers
\* and a timeout
ConcurrentPre(present) ==
    IF present THEN {PreThrows} \cup {p \in PreResults : p.timeout # 0} ELSE {PreAbsent}
\* what the transport answers in these calls: a 200 response with a JSON
\* body, a timeout, a cancellation
ConcurrentResults ==
    {Returned([status |-> 200,
               headers |-> [ct |-> NoHeader, CT |-> "application/json; charset=utf-8"],
               data |-> Str(<<"1">>)]),
     Raised(Reason(NoResponse, TRUE, "ETIMEDOUT", "net", FALSE)),
     Raised(Reason(NoResponse, TRUE, "ERR_CANCELED", "canceled", TRUE))}
ConcurrentHookChoices(present) == IF present THEN {"false", "throws"} ELSE {"none"}
ConcurrentPath == <<"/", "users">>

\* loggedDescriptor that lets the debug output consume the timeout
loggedDescriptorTimed(flag, conf) == IF flag THEN [conf EXCEPT !.timeout = 0] ELSE conf

\* AxiosRestService.debug && console.debug("...", axiosConf), line 145: the
\* descriptor is printed and left as it is
loggedDescriptor(flag, conf) == conf

\* cancelSource with one token source for all the calls of the client
cancelSourceShared(fs, i) == [j \in DOMAIN fs |-> [fs[j] EXCEPT !.token = TRUE]]

\* axios.CancelToken.source(), line 233: a source created in the call, so
\* cancel reaches the token of that call only
cancelSource(fs, i) == [fs EXCEPT ![i].token = TRUE]

\* the synchronous head of a call in slot i (preprocessHeaders runs the hook)
beginIn(i, op, pre, conf, logs) ==
    /\ flights[i].pc = "idle"
    /\ flights' = [flights EXCEPT ![i] =
                     IF pre.kind = "throws"
                     THEN [NoFlight EXCEPT !.op = op, !.pc = "done", !.pre = pre,
                                           !.outcome = Rejected(Thrown("preInvoke")),
                                           !.events = <<"preInvoke">>]
                     ELSE [NoFlight EXCEPT !.op = op, !.pc = "awaitTransport", !.pre = pre,
                                           !.conf = conf,
                                           !.events = (IF client.preInvoke THEN <<"preInvoke">>
                                                       ELSE <<>>) \o <<"transport">>]]
    /\ console' = (console \/ (logs /\ debug /\ pre.kind # "throws"))
    /\ UNCHANGED <<client, debug, callVars>>

\* get, lines 143-147, in slot i
getIn(i) ==
    \E pre \in ConcurrentPre(client.preInvoke) :
        beginIn(i, "get", pre,
                loggedDescriptor(debug, buildAxiosRequest(ConcurrentPath, "GET", "query",
                                                          DataNull, TYPE_JSON, pre)),
                TRUE)

\* asyncUpload, lines 230-243, in slot i
asyncUploadIn(i) ==
    \E pre \in ConcurrentPre(client.preInvoke) :
        beginIn(i, "asyncUpload", pre,
                asyncUploadRequest(ConcurrentPath, "query", "filename", pre), FALSE)

\* a routine step st of fetchData takes effect on the locals f of a call
stepIn(f, st, ret) ==
    CASE st.next = "awaitPost" ->
              [f EXCEPT !.pc = "awaitPost", !.pending = st.data,
                        !.events = f.events \o st.events]
      [] st.next = "return" ->
              [f EXCEPT !.pc = "done", !.pending = Undefined,
                        !.outcome = Resolved(st.data), !.events = f.events \o st.events]
      [] st.next = "raise" ->
              LET r == raise(st.ex, client.errorHandler, ret) IN
              [f EXCEPT !.pc = "done", !.ret = ret, !.pending = Undefined,
                        !.outcome = r.outcome,
                        !.events = f.events \o st.events \o r.events]

\* fetchData, lines 108-132, in slot i: the transport settled
fetchDataIn(i) ==
    /\ flights[i].pc = "awaitTransport"
    /\ flights[i].op = "get"
    /\ \E res \in ConcurrentResults, ret \in ConcurrentHookChoices(client.errorHandler) :
         /\ flights' = [flights EXCEPT ![i] =
                          stepIn([flights[i] EXCEPT !.res = res],
                                 fetchDataSettled(res, FALSE, FALSE, client.postInvoke), ret)]
         \* handleException prints the failure when the flag is set (345, 401, 415)
         /\ console' = (console \/ (debug /\ res.kind = "reason"))
    /\ UNCHANGED <<client, debug, callVars>>

\* fetchData, lines 118-131, in slot i: the post-response hook settled
fetchDataPostInvokeIn(i) ==
    /\ flights[i].pc = "awaitPost"
    /\ \E rejects \in BOOLEAN, ret \in ConcurrentHookChoices(client.errorHandler) :
         /\ flights' = [flights EXCEPT ![i] =
                          stepIn([flights[i] EXCEPT !.rejects = rejects],
                                 fetchDataPosted(flights[i].pending, rejects), ret)]
         /\ console' = (console \/ (debug /\ rejects))
    /\ UNCHANGED <<client, debug, callVars>>

\* asyncUpload, lines 242-253, in slot i: the transport settled (a transfer
\* whose token was cancelled is aborted); line 250 prints without the flag
asyncUploadResumeIn(i) ==
    /\ flights[i].pc = "awaitTransport"
    /\ flights[i].op = "asyncUpload"
    /\ \E res \in ConcurrentResults :
         /\ flights[i].token => (res.kind = "reason" /\ res.reason.cancel)
         /\ LET r == asyncUploadSettled(res, FullCallback, FALSE, FALSE) IN
            flights' = [flights EXCEPT ![i] =
                          [flights[i] EXCEPT !.pc = "done", !.res = res,
                                             !.outcome = r.outcome,
                                             !.events = flights[i].events \o r.events]]
         /\ console' = (console \/ (res.kind = "reason" /\ (res.reason.cancel \/ debug)))
    /\ UNCHANGED <<client, debug, callVars>>

\* the caller of the asyncUpload in slot i invokes the cancel of its handle
cancelIn(i) ==
    /\ flights[i].op = "asyncUpload"
    /\ flights[i].pc = "done"
    /\ flights[i].outcome = Resolved(Handle)
    /\ flights' = [cancelSource(flights, i) EXCEPT ![i].cancelCalled = TRUE]
    /\ UNCHANGED <<client, debug, console, callVars>>

\* the call in slot i is over: its locals are discarded
returnIn(i) ==
    /\ flights[i].pc = "done"
    /\ flights' = [flights EXCEPT ![i] = NoFlight]
    /\ UNCHANGED <<client, debug, console, callVars>>

\* static setDebug(value), lines 50-52
setDebug(value) ==
    /\ debug' = value
    /\ UNCHANGED <<client, flights, console, callVars>>

NextConcurrent ==
    \/ \E i \in Slots : getIn(i)
    \/ \E i \in Slots : asyncUploadIn(i)
    \/ \E i \in Slots : fetchDataIn(i)
    \/ \E i \in Slots : fetchDataPostInvokeIn(i)
    \/ \E i \in Slots : asyncUploadResumeIn(i)
    \/ \E i \in Slots : cancelIn(i)
    \/ \E i \in Slots : returnIn(i)
    \/ \E value \in BOOLEAN : setDebug(value)

SpecConcurrent == Init /\ [][NextConcurrent]_vars

\* ---------------------------------------------------------------- helpers
Count(seq, tag) == Cardinality({i \in 1..Len(seq) : seq[i] = tag})
\* position of the first event tag in seq, 0 when there is none
First(seq, tag) ==
    IF Count(seq, tag) = 0 THEN 0
    ELSE CHOOSE i \in 1..Len(seq) : seq[i] = tag /\ \A j \in 1..(i - 1) : seq[j] # tag
VerbOps == {"get", "post", "put", "del"}
RaisingOps == FetchOps \cup {"download"}
\* the response the call received, whether the transport returned or raised it
Received == IF result.kind = "response" THEN result.response ELSE result.reason.response
DeclaredType == orElse(Received.headers.CT, orElse(Received.headers.ct, ""))
FirstChars(s, n) == [i \in 1..(IF Len(s) < n THEN Len(s) ELSE n) |-> s[i]]

\* ------------------------------------------------------------------ C1
C1_Decoded ==
    parseResponseData(result.response.data, nullish(result.response.headers.CT, TYPE_JSON))

C1_Composed ==
    LET processed == IF call.hasProc THEN Apply("dataProcessor", C1_Decoded.val)
                     ELSE C1_Decoded.val
    IN  IF client.postInvoke THEN Apply("postInvoke", processed) ELSE processed

C1_StepThrew ==
    \/ ~C1_Decoded.ok /\ apiErr = handleException(SyntaxError)
    \/ C1_Decoded.ok /\ call.hasProc /\ apiErr = handleException(Thrown("dataProcessor"))
    \/ C1_Decoded.ok /\ client.postInvoke /\ apiErr = handleException(Thrown("postInvoke"))

C2_Case ==
    /\ pc = "done"
    /\ call.op \in VerbOps
    /\ result.kind # "none"
    /\ Received # NoResponse
    /\ Received.status >= 400
    /\ Received.status < 600

\* the details the claim names for each content type
C2_ClaimedDetails ==
    IF includes(DeclaredType, TYPE_JSON)
    THEN parseResponseData(Received.data, DeclaredType).val
    ELSE IF includes(DeclaredType, TYPE_HTML)
    THEN [code |-> Received.status,
          htmlContent |-> IF IsString(Received.data)
                          THEN Str(FirstChars(Received.data.s, 200)) ELSE Received.data]
    ELSE [code |-> Received.status, raw |-> Received.data]

C2_RaisedDetails ==
    IF includes(DeclaredType, TYPE_JSON)
    THEN LET parsed == parseResponseData(Received.data, DeclaredType) IN
         IF parsed.ok THEN parsed.val
         ELSE [code |-> Received.status, message |-> <<STATUS_TEXT>>,
               parseError |-> "SyntaxError", raw |-> Received.data]
    ELSE IF includes(DeclaredType, TYPE_HTML)
    THEN [code |-> Received.status,
          htmlContent |-> IF IsString(Received.data)
                          THEN Str(FirstChars(Received.data.s, 200)) ELSE Null]
    ELSE [code |-> Received.status, raw |-> Received.data]

C2_ReturnedDecoded ==
    parseResponseData(Received.data, nullish(Received.headers.CT, TYPE_JSON))

C3_Case ==
    /\ pc = "done"
    /\ call.op \in RaisingOps
    /\ result.kind = "reason"
    /\ result.reason.response = NoResponse
    /\ result.reason.request

\* the code the claim fixes for each transport error identifier
C3_ClaimedCode ==
    CASE result.reason.code = "ECONNABORTED" -> 101
      [] result.reason.code = "ERR_NETWORK" -> 102
      [] result.reason.code = "ERR_CANCELED" -> 103
      [] result.reason.code = "ENOTFOUND" -> 104
      [] result.reason.code = "ECONNREFUSED" -> 105
      [] OTHER -> 100

C3_ClaimedError ==
    ApiError(-1, [code |-> C3_ClaimedCode, networkError |-> TRUE,
                  originalCode |-> result.reason.code,
                  originalMessage |-> result.reason.message])

\* C3 as stated: for every transport failure where the request was sent and
\* no response was received, the call raises an ApiError with status -1 and
\* details {code, networkError: true, originalCode, originalMessage}, code
\* being 101..105 by the transport error identifier and 100 otherwise.
C3_AsStated == C3_Case => outcome = Rejected(C3_ClaimedError)

\* C3 (amended): for every transport failure where the request was sent and
\* no response was received, the call builds an ApiError with status -1 and
\* details {code, networkError: true, originalCode, originalMessage}, code
\* being 101 (ECONNABORTED), 102 (ERR_NETWORK), 103 (ERR_CANCELED),
\* 104 (ENOTFOUND), 105 (ECONNREFUSED) and 100 otherwise, and raises it to the
\* caller, unless the error hook throws: then the hook's exception is raised
\* instead.
C3_NetworkErrorMapping ==
    C3_Case
    => /\ apiErr = C3_ClaimedError
       /\ outcome = IF hookRet = "throws" THEN Rejected(Thrown("errorHandler"))
                    ELSE Rejected(apiErr)

C3_Witness ==
    /\ pc = "done"
    /\ call.op = "download"
    /\ result.kind = "reason"
    /\ result.reason.request
    /\ result.reason.code = "ENOTFOUND"
    /\ outcome = Rejected(ApiError(-1, [code |-> 104, networkError |-> TRUE,
                                        originalCode |-> "ENOTFOUND",
                                        originalMessage |-> "net"]))

\* ------------------------------------------------------------------ C4
C4_Failed ==
    /\ pc = "done"
    /\ call.op \in RaisingOps
    /\ outcome.kind = "rejected"

\* C4 as stated: whatever the transport, the pre-request hook, the data
\* processor, the post-response hook or the error hook does, a failed
\* get/post/put/del/upload/download hands the caller an ApiError and nothing
\* else.
C4_AsStated == C4_Failed => IsApiError(outcome.err)

\* C4 (amended): every failure of the transport, the response decoder, the
\* data processor, the post-response hook or the browser save is normalized
\* into one ApiError, which is what the caller of
\* get/post/put/del/upload/download receives; the two exceptions are an
\* exception of the pre-request hook, which reaches the caller as it is
\* (before any request is sent), and an exception of the error hook, which
\* replaces the ApiError it was handed.
C4_SingleErrorChannel ==
    C4_Failed
    => \/ /\ outcome.err = apiErr
          /\ IsApiError(apiErr)
          /\ hookRet # "throws"
       \/ /\ outcome.err = Thrown("errorHandler")
          /\ IsApiError(apiErr)
          /\ hookRet = "throws"
       \/ /\ outcome.err = Thrown("preInvoke")
          /\ client.preInvoke
          /\ result.kind = "none"
          /\ apiErr = NoError

C4_Witness ==
    /\ pc = "done"
    /\ call.op \in FetchOps
    /\ result.kind = "response"
    /\ result.response.status = 200
    /\ Count(log, "postInvoke") = 1
    /\ outcome = Rejected(handleException(Thrown("postInvoke")))
    /\ IsApiError(outcome.err)

\* ------------------------------------------------------------------ C5
C5_Call == call.op \in RaisingOps

C5_Hooks == Count(log, "errorHandler")

\* C5 as stated: at most one ApiError is constructed per call of
\* get/post/put/del/upload/download and the error hook, when configured, is
\* invoked exactly once when the call fails, after the ApiError is built and
\* before it is raised to the caller, and never when the call succeeds.
C5_AsStated ==
    (C5_Call /\ pc = "done" /\ client.errorHandler)
    => /\ Count(log, "ApiError") <= 1
       /\ outcome.kind = "resolved" => C5_Hooks = 0
       /\ outcome.kind = "rejected"
            => /\ C5_Hooks = 1
               /\ First(log, "ApiError") < First(log, "errorHandler")

\* C5 (amended): per call of get/post/put/del/upload/download at most one
\* ApiError is constructed and the error hook is invoked at most once; a
\* configured hook is invoked exactly once when the call fails after the
\* pre-request hook has returned, that is exactly when an ApiError is built,
\* after the ApiError is built and before it is raised; it is not invoked
\* when the call succeeds nor when the call fails because the pre-request
\* hook throws (no ApiError is built then); when the hook itself throws, the
\* ApiError is not raised.
C5_ErrorHookOnce ==
    C5_Call
    => /\ Count(log, "ApiError") <= 1
       /\ C5_Hooks <= 1
       /\ Count(log, "throw") <= 1
       /\ C5_Hooks = 1 => /\ client.errorHandler
                          /\ Count(log, "ApiError") = 1
                          /\ First(log, "ApiError") < First(log, "errorHandler")
       /\ Count(log, "throw") = 1
            => /\ log[Len(log)] = "throw"
               /\ Count(log, "ApiError") = 1
               /\ C5_Hooks = (IF client.errorHandler THEN 1 ELSE 0)
       /\ pc = "done"
            => /\ C5_Hooks = (IF client.errorHandler /\ Count(log, "ApiError") = 1
                              THEN 1 ELSE 0)
               /\ outcome.kind = "resolved" => C5_Hooks = 0 /\ Count(log, "ApiError") = 0
               /\ (outcome.kind = "rejected" /\ result.kind # "none")
                    => Count(log, "ApiError") = 1
               /\ (outcome.kind = "rejected" /\ result.kind = "none") => C5_Hooks = 0
               /\ Count(log, "throw") = (IF Count(log, "ApiError") = 1 /\ hookRet # "throws"
                                         THEN 1 ELSE 0)

C5_Witness ==
    /\ pc = "done"
    /\ call.op = "upload"
    /\ client.errorHandler
    /\ hookRet = "false"
    /\ outcome.kind = "rejected"
    /\ log = <<"transport", "ApiError", "errorHandler", "throw">>

\* ------------------------------------------------------------------ C6
\* C6: the boolean the error hook returns never suppresses propagation: for
\* every failed get/post/put/del/upload/download whose error hook returned
\* true or false, the ApiError the hook was handed is raised to the caller.
C6_ReturnValueIgnored ==
    (pc = "done" /\ call.op \in RaisingOps /\ hookRet \in {"true", "false"})
    => /\ IsApiError(apiErr)
       /\ outcome = Rejected(apiErr)
       /\ Count(log, "errorHandler") = 1
       /\ log[Len(log)] = "throw"

C6_Witness ==
    /\ pc = "done"
    /\ call.op = "get"
    /\ hookRet = "true"
    /\ result.kind = "reason"
    /\ outcome.kind = "rejected"
    /\ IsApiError(outcome.err)

\* ------------------------------------------------------------------ C7
C7_Settled == pc = "done" /\ call.op = "asyncUpload"

\* C7 as stated: whatever the transfer, the pre-request hook and the callback
\* functions do, the promise asyncUpload returns resolves with an
\* UploadProgress handle.
C7_AsStated == C7_Settled => outcome = Resolved(Handle)

\* C7 (amended): for every outcome of the transfer (success, cancellation,
\* HTTP error, transport failure) the promise asyncUpload returns resolves
\* with an UploadProgress handle and a failure other than a cancellation is
\* reported, as an ApiError, only to handleError; an onCompleted that throws
\* is reported to handleError too.  The promise rejects in two cases only:
\* with the exception of the pre-request hook when that hook throws (no
\* request is sent), and with the exception of handleError when that callback
\* throws.  It never rejects with an ApiError.
C7_UploadPromise ==
    C7_Settled
    => /\ \/ outcome = Resolved(Handle)
          \/ /\ outcome = Rejected(Thrown("preInvoke"))
             /\ client.preInvoke
             /\ result.kind = "none"
          \/ /\ outcome = Rejected(Thrown("handleError"))
             /\ call.cb.handleError
             /\ IsApiError(errorWith)
       /\ (result.kind = "reason" /\ ~result.reason.cancel /\ call.cb.handleError)
            => errorWith = handleException(result.reason)
       /\ (result.kind = "reason" /\ result.reason.cancel) => errorWith = NoError
       /\ hookRet = "none"

C7_Witness ==
    /\ pc = "done"
    /\ call.op = "asyncUpload"
    /\ call.cb = EmptyCallback
    /\ result.kind = "reason"
    /\ result.reason.code = "ERR_NETWORK"
    /\ apiErr = ApiError(-1, [code |-> 102, networkError |-> TRUE,
                              originalCode |-> "ERR_NETWORK", originalMessage |-> "net"])
    /\ errorWith = NoError
    /\ outcome = Resolved(Handle)

\* ------------------------------------------------------------------ C8
\* C8 as stated: asyncUpload hands the UploadProgress handle to the caller
\* immediately, before the transfer settles: while the transfer is in flight
\* the caller holds the handle (and so can invoke cancel to abort it).
C8_AsStated ==
    (call.op = "asyncUpload" /\ pc = "awaitTransport") => handle

\* ------------------------------------------------------------------ C9
\* an asyncUpload whose callback object supplies the three handlers and whose
\* transfer has settled
C9_Case ==
    /\ pc = "done"
    /\ call.op = "asyncUpload"
    /\ call.cb = FullCallback
    /\ result.kind # "none"

C9_Cancelled == result.kind = "reason" /\ result.reason.cancel

C9_Terminals == Count(log, "onCompleted") + Count(log, "handleError")

\* C9 as stated: for every asyncUpload whose callback object supplies the
\* handlers, every progressUpdate invocation precedes the terminal callback
\* and exactly one terminal callback fires (onCompleted or handleError, never
\* both, never twice), except that a cancelled transfer fires neither.
C9_AsStated ==
    C9_Case
    => /\ \A i, j \in 1..Len(log) :
            (log[i] = "progressUpdate" /\ log[j] \in {"onCompleted", "handleError"}) => i < j
       /\ C9_Terminals = (IF C9_Cancelled THEN 0 ELSE 1)

C11_NoRetry ==
    /\ Count(log, "transport") <= 1
    /\ pc \in {"awaitTransport", "awaitPost"} => Count(log, "transport") = 1
    /\ pc = "done"
         => Count(log, "transport") = (IF result.kind = "none" THEN 0 ELSE 1)

C11_Witness ==
    /\ pc = "done"
    /\ call.op = "get"
    /\ result.kind = "reason"
    /\ result.reason.code = "ETIMEDOUT"
    /\ outcome.kind = "rejected"
    /\ Count(log, "transport") = 1

\* ------------------------------------------------------------------ C12
C12_Requested ==
    (call.op = "download" /\ pc = "awaitTransport")
    => /\ axiosConf.method = toLowerCase(args.method)
       /\ axiosConf.responseType = "blob"

\* what download hands to the save capability for the response it received
C12_Saved ==
    [data |-> result.response.data, filename |-> call.filename,
     type |-> result.response.headers.ct]

C12_Settled == call.op = "download" /\ pc = "done" /\ result.kind # "none"

\* an HTTP failure (a response with an error status, returned or raised) or a
\* transport failure
C12_Failure ==
    \/ result.kind = "reason"
    \/ result.kind = "response" /\ result.response.status >= 400

C13_Case == call.op \in {"upload", "asyncUpload"} /\ pc = "awaitTransport"

\* a multipart body holding the file and, after it, the fields of params
C13_ClaimedBody == FormData(args.fileKey) \o <<args.params>>

C14_Case ==
    /\ call.op = "asyncUpload"
    /\ pc = "done"
    /\ result.kind = "response"
    /\ result.response.status < 300
    /\ call.cb.present /\ call.cb.onCompleted

\* the decoding fetchData applies to a response (line 112)
C14_Decoded ==
    parseResponseData(result.response.data, nullish(result.response.headers.CT, TYPE_JSON))

\* C14 as stated: when an asyncUpload transfer completes successfully,
\* onCompleted is invoked with the decoded response body (a JSON text body is
\* delivered as the parsed value), and the path never goes through the error
\* normalizer.
C14_AsStated ==
    (C14_Case /\ C14_Decoded.ok)
    => /\ completedWith = C14_Decoded.val
       /\ Count(log, "ApiError") = 0

\* ------------------------------------------------------------------ C15
\* p is loaded * 100 / total rounded to the nearest integer, halves upwards
C15_Rounded(p, loaded, total) ==
    /\ 2 * p * total - total <= 200 * loaded
    /\ 200 * loaded < 2 * p * total + total

C15_LoadedNonDecreasing ==
    \A i \in 1..Len(progress), j \in 1..Len(progress) :
        i < j => progress[i].loaded <= progress[j].loaded

\* C15: during asyncUpload, each progress event with a known non-zero total
\* makes the progress callback receive round(loaded * 100 / total), an integer
\* in [0,100] when loaded is at most total, and the values received are
\* non-decreasing whenever loaded is non-decreasing; the callback is invoked
\* for no event whose total is unknown (every invocation belongs to an event
\* with a known total).
C15_ProgressPercent ==
    /\ Count(log, "progressUpdate") = Len(progress)
    /\ \A i \in 1..Len(progress) :
         /\ call.op = "asyncUpload" /\ call.cb.present /\ call.cb.progressUpdate
         /\ progress[i].total # 0
         /\ C15_Rounded(progress[i].percent, progress[i].loaded, progress[i].total)
         /\ progress[i].loaded <= progress[i].total => progress[i].percent \in 0..100
    /\ C15_LoadedNonDecreasing
         => \A i \in 1..Len(progress), j \in 1..Len(progress) :
                i < j => progress[i].percent <= progress[j].percent

C15_Witness ==
    /\ call.op = "asyncUpload"
    /\ pc = "done"
    /\ Len(progress) = 2
    /\ progress[1].loaded = 2 /\ progress[1].total = 3 /\ progress[1].percent = 67
    /\ progress[2].loaded = 3 /\ progress[2].total = 3 /\ progress[2].percent = 100
    /\ Count(log, "progressUpdate") = 2

\* ------------------------------------------------------------------ C16
\* a descriptor built by a verb or by download is with the transport, and the
\* pre-request hook (if any) set no Content-Type
C16_Case ==
    /\ call.op \in VerbOps \cup {"download"}
    /\ pc = "awaitTransport"
    /\ args.interceptorResult.headers[CONTENT_TYPE_NAME] = NoHeader

\* C16 as stated: for every descriptor built by get/post/put/del/download, the
\* Content-Type header is the content type supplied by the call site, and
\* application/json when the call site supplies none, provided the pre-request
\* hook does not set Content-Type itself.
C16_AsStated ==
    C16_Case => axiosConf.headers[CONTENT_TYPE_NAME] = args.contentType

\* ------------------------------------------------------------------ C17
\* C17: every request handed to the transport by get/post/put/del/upload/
\* asyncUpload/download has a URL equal to the client's base URL followed by
\* the caller's path verbatim, with no normalization (a slash ending the base
\* and a slash starting the path are both kept).
C17_VerbatimUrl ==
    (pc = "awaitTransport" /\ call.op \in Ops)
    => /\ Len(axiosConf.url) = Len(root) + Len(args.url)
       /\ \A i \in 1..Len(root) : axiosConf.url[i] = root[i]
       /\ \A i \in 1..Len(args.url) : axiosConf.url[Len(root) + i] = args.url[i]

C17_Witness ==
    /\ pc = "awaitTransport"
    /\ call.op = "asyncUpload"
    /\ args.url = <<"/", "users">>
    /\ axiosConf.url = <<"https://api.example.com", "/", "/", "users">>

\* ------------------------------------------------------------------ C20
\* a verb or upload call settled on a response (returned, or raised as an HTTP
\* error) that declares JSON and carries a malformed JSON body
C20_Case ==
    /\ call.op \in FetchOps
    /\ pc = "done"
    /\ result.kind # "none"
    /\ Received # NoResponse
    /\ includes(DeclaredType, TYPE_JSON)
    /\ IsString(Received.data)
    /\ trim(Received.data.s) # <<>>
    /\ ~JSONValid(trim(Received.data.s))

\* C20 as stated: whenever a response whose declared content type is JSON
\* carries a malformed JSON body, the call raises an ApiError whose details
\* have parseError set and raw equal to the raw body, with the response's
\* status (the parse failure never becomes a different error kind), whether
\* the transport returned the response or raised it as an HTTP error.
C20_AsStated ==
    C20_Case
    => /\ outcome.kind = "rejected"
       /\ IsApiError(apiErr)
       /\ apiErr.status = Received.status
       /\ "parseError" \in DOMAIN apiErr.details
       /\ apiErr.details.raw = Received.data

\* ------------------------- the RestService revision: RestService.upload
\* responseType of the request of an upload: none was asked for
RestService_responseType == ""

\* RestService.handleException: a failure with a response is keyed by the
\* response's status, every other failure (an ApiError caught again included:
\* it has no response) becomes ApiError(-1, {code: 100})
RestService_handleException(reason) ==
    LET response == IF "response" \in DOMAIN reason THEN reason.response ELSE NoResponse IN
    IF response # NoResponse
    THEN LET data == parseResponseData(response.data, RestService_responseType).val IN
         ApiError(response.status,
                  IF data = Null \/ IsString(data)
                  THEN [code |-> "undefined", message |-> <<STATUS_TEXT>>]
                  ELSE [code |-> "undefined", object |-> data])
    ELSE ApiError(-1, [code |-> 100])

\* RestService.preprocessHeaders: no timeout unless the hook returns a result
RestService_preprocessHeaders(options, interceptorResult) ==
    IF interceptorResult.kind = "result"
    THEN [options EXCEPT
            !.headers = [k \in HeaderKeys |->
                            IF interceptorResult.headers[k] # NoHeader
                            THEN interceptorResult.headers[k]
                            ELSE options.headers[k]],
            !.timeout = IF interceptorResult.timeout # 0
                        THEN interceptorResult.timeout ELSE TIMEOUT]
    ELSE options

\* RestService.buildUploadOption: no method, and upload never attaches the
\* form data
RestService_buildUploadOption(url, params, interceptorResult) ==
    LET options == [NoConf EXCEPT
                      !.url = requestUrl(url),
                      !.params = params,
                      !.withCredentials = TRUE,
                      !.headers[CONTENT_TYPE_NAME] = "multipart/form-data"]
    IN  RestService_preprocessHeaders(options, interceptorResult)

\* RestService.fetchData: catch (reason) { ex = this.handleException(reason) }
RestService_Caught(reason, events) ==
    Step("raise", Undefined, RestService_handleException(reason), events \o <<"ApiError">>)

\* RestService.fetchData: the awaited transport call settled
RestService_fetchDataSettled(settled, hasProc, procThrows, hasPost) ==
    IF settled.kind = "response"
    THEN LET response == settled.response
             parsed == parseResponseData(response.data,
                                         nullish(response.headers.CT, TYPE_JSON))
         IN  IF ~parsed.ok THEN RestService_Caught(SyntaxError, <<>>)
             ELSE IF response.status < 300
             THEN IF hasProc /\ procThrows
                  THEN RestService_Caught(Thrown("dataProcessor"), <<"dataProcessor">>)
                  ELSE LET data == applyProcessor(hasProc, parsed.val)
                           events == IF hasProc THEN <<"dataProcessor">> ELSE <<>>
                       IN  IF hasPost
                           THEN Step("awaitPost", data, NoError, events \o <<"postInvoke">>)
                           ELSE Step("return", data, NoError, events)
             ELSE IF response.status >= 400
             THEN Step("raise", Undefined, ApiError(response.status, parsed.val),
                       <<"ApiError">>)
             ELSE Step("return", Undefined, NoError, <<>>)
    ELSE RestService_Caught(settled.reason, <<>>)

\* RestService.fetchData: the awaited post-response hook settled
RestService_fetchDataPosted(data, rejects) ==
    IF rejects THEN RestService_Caught(Thrown("postInvoke"), <<>>)
    ELSE Step("return", Apply("postInvoke", data), NoError, <<>>)

\* fetchData hands ex to the error hook and throws it; RestService.upload
\* catches what fetchData threw, normalizes it again, hands the new ApiError
\* to the error hook and throws that
RestService_uploadCatch(ex, hasHandler, ret, again) ==
    LET inner == raise(ex, hasHandler, ret)
        caught == RestService_handleException(inner.outcome.err)
        outer == raise(caught, hasHandler, again)
    IN  [events |-> inner.events \o <<"ApiError">> \o outer.events,
         outcome |-> outer.outcome, ex |-> caught]

\* a routine step st of fetchData, called by RestService.upload, takes effect
RestService_Continue(st, ret, again) ==
    CASE st.next = "awaitPost" ->
              /\ pc' = "awaitPost"
              /\ pending' = st.data
              /\ log' = log \o st.events
              /\ UNCHANGED <<outcome, hookRet, apiErr>>
      [] st.next = "return" ->
              /\ pc' = "done"
              /\ pending' = Undefined
              /\ outcome' = Resolved(st.data)
              /\ log' = log \o st.events
              /\ UNCHANGED <<hookRet, apiErr>>
      [] st.next = "raise" ->
              LET r == RestService_uploadCatch(st.ex, client.errorHandler, ret, again) IN
              /\ pc' = "done"
              /\ pending' = Undefined
              /\ outcome' = r.outcome
              /\ log' = log \o st.events \o r.events
              /\ apiErr' = r.ex
              /\ hookRet' = IF client.errorHandler THEN again ELSE hookRet

\* RestService.upload: the descriptor is built inside upload's try block, so
\* an exception of the pre-request hook is normalized too
RestService_upload ==
    /\ pc = "idle"
    /\ \E url \in Paths, params \in Params, fileKey \in FileKeys, hasProc \in BOOLEAN,
          pre \in (IF client.preInvoke THEN PreOutcomes ELSE {PreAbsent}),
          again \in HookChoices(client.errorHandler) :
         /\ call' = VerbCall("upload", hasProc)
         /\ IF pre.kind = "throws"
            THEN LET ex == RestService_handleException(Thrown("preInvoke"))
                     r == raise(ex, client.errorHandler, again)
                 IN  /\ pc' = "done"
                     /\ outcome' = r.outcome
                     /\ axiosConf' = NoConf
                     /\ args' = NoArgs
                     /\ log' = <<"preInvoke", "ApiError">> \o r.events
                     /\ apiErr' = ex
                     /\ hookRet' = IF client.errorHandler THEN again ELSE hookRet
            ELSE /\ pc' = "awaitTransport"
                 /\ outcome' = Pending
                 /\ axiosConf' = RestService_buildUploadOption(url, params, pre)
                 /\ args' = [Args(url, "undefined", params, NoData, "undefined", fileKey)
                               EXCEPT !.interceptorResult = pre]
                 /\ log' = (IF client.preInvoke THEN <<"preInvoke">> ELSE <<>>)
                              \o <<"transport">>
                 /\ UNCHANGED <<apiErr, hookRet>>
    /\ UNCHANGED <<concurrentVars, client, result, pending, saved, uploadVars>>

\* the transport settles the request of RestService.upload
RestService_fetchData ==
    /\ pc = "awaitTransport"
    /\ call.op = "upload"
    /\ \E res \in TransportResults, procThrows \in ThrowChoices(call.hasProc),
          ret \in HookChoices(client.errorHandler),
          again \in HookChoices(client.errorHandler) :
         /\ result' = res
         /\ RestService_Continue(
                RestService_fetchDataSettled(res, call.hasProc, procThrows,
                                             client.postInvoke), ret, again)
    /\ axiosConf' = NoConf
    /\ args' = NoArgs
    /\ UNCHANGED <<concurrentVars, client, call, saved, uploadVars>>

\* the awaited post-response hook settles
RestService_fetchDataPostInvoke ==
    /\ pc = "awaitPost"
    /\ \E rejects \in BOOLEAN, ret \in HookChoices(client.errorHandler),
          again \in HookChoices(client.errorHandler) :
         RestService_Continue(RestService_fetchDataPosted(pending, rejects), ret, again)
    /\ UNCHANGED <<concurrentVars, client, call, args, axiosConf, result, saved, uploadVars>>

NextRestService ==
    \/ RestService_upload
    \/ RestService_fetchData
    \/ RestService_fetchDataPostInvoke
    \/ NewCall

SpecRestService == Init /\ [][NextRestService]_vars

\* ------------------------------------------- a call running on its own
\* what a call with the locals f builds and produces when it runs alone: a
\* function of what the call itself was given (f.op, f.pre, f.res, f.rejects,
\* f.ret) and of the client's hooks, and of nothing else
AloneConf(f) ==
    IF f.op = "get"
    THEN buildAxiosRequest(ConcurrentPath, "GET", "query", DataNull, TYPE_JSON, f.pre)
    ELSE asyncUploadRequest(ConcurrentPath, "query", "filename", f.pre)

AloneHead(f) == (IF client.preInvoke THEN <<"preInvoke">> ELSE <<>>) \o <<"transport">>

AloneSettled(f) == fetchDataSettled(f.res, FALSE, FALSE, client.postInvoke)

\* the last routine step of a get call and the events up to it
AloneLast(f) ==
    LET st == AloneSettled(f) IN
    IF st.next = "awaitPost"
    THEN LET posted == fetchDataPosted(st.data, f.rejects) IN
         [posted EXCEPT !.events = st.events \o posted.events]
    ELSE st

AloneEnd(f) ==
    IF f.op = "get"
    THEN LET st == AloneLast(f) IN
         IF st.next = "return"
         THEN [events |-> st.events, outcome |-> Resolved(st.data)]
         ELSE LET r == raise(st.ex, client.errorHandler, f.ret) IN
              [events |-> st.events \o r.events, outcome |-> r.outcome]
    ELSE LET r == asyncUploadSettled(f.res, FullCallback, FALSE, FALSE) IN
         [events |-> r.events, outcome |-> r.outcome]

RunsAlone(f) ==
    CASE f.pc = "idle" -> f = NoFlight
      [] f.pc = "awaitTransport" ->
              /\ f.conf = AloneConf(f)
              /\ f.events = AloneHead(f)
              /\ f.outcome = Pending
      [] f.pc = "awaitPost" ->
              /\ f.conf = AloneConf(f)
              /\ AloneSettled(f).next = "awaitPost"
              /\ f.pending = AloneSettled(f).data
              /\ f.events = AloneHead(f) \o AloneSettled(f).events
              /\ f.outcome = Pending
      [] f.pc = "done" ->
              IF f.pre.kind = "throws"
              THEN f.outcome = Rejected(Thrown("preInvoke")) /\ f.events = <<"preInvoke">>
              ELSE /\ f.conf = AloneConf(f)
                   /\ f.outcome = AloneEnd(f).outcome
                   /\ f.events = AloneHead(f) \o AloneEnd(f).events

C21_Assigned ==
    [k \in HeaderKeys |->
        IF k = CONTENT_TYPE_NAME
        THEN (IF call.op \in {"upload", "asyncUpload"} THEN "multipart/form-data"
              ELSE HeadersObject)
        ELSE NoHeader]

\* C21: for every descriptor built by any operation: if the pre-request hook
\* is configured and returns a result, each header key of the result
\* overwrites the descriptor's header of that key, every other header is left
\* unchanged, and the timeout is the result's timeout when it is provided and
\* truthy, else 60000; if the hook is absent or returns nothing, the headers
\* are unchanged and the timeout is 60000.
C21_HookWins ==
    (pc = "awaitTransport" /\ call.op \in Ops)
    => LET pre == args.interceptorResult IN
       IF pre.kind = "result"
       THEN /\ \A k \in HeaderKeys :
                 axiosConf.headers[k] = IF pre.headers[k] # NoHeader THEN pre.headers[k]
                                        ELSE C21_Assigned[k]
            /\ axiosConf.timeout = IF pre.timeout # 0 THEN pre.timeout ELSE 60000
       ELSE /\ pre.kind \in {"absent", "null"}
            /\ (pre.kind = "absent") = ~client.preInvoke
            /\ axiosConf.headers = C21_Assigned
            /\ axiosConf.timeout = 60000

\* the hook returned an Authorization header only and no timeout
C21_Witness ==
    /\ pc = "awaitTransport"
    /\ call.op = "upload"
    /\ args.interceptorResult.kind = "result"
    /\ args.interceptorResult.timeout = 0
    /\ axiosConf.headers["Authorization"] = "Bearer t"
    /\ axiosConf.headers[CONTENT_TYPE_NAME] = "multipart/form-data"
    /\ axiosConf.timeout = 60000

\* ------------------------------------------------------------------ C22
\* the decoder's result is what the call resolves to: a verb or upload call
\* without data processor on a client without post-response hook received a
\* response with status < 300
C22_Case ==
    /\ call.op \in FetchOps
    /\ pc = "done"
    /\ result.kind = "response"
    /\ result.response.status < 300
    /\ ~call.hasProc
    /\ ~client.postInvoke

C22_Body == result.response.data
\* the content type fetchData hands to the decoder (line 112)
C22_ContentType == nullish(result.response.headers.CT, TYPE_JSON)
C22_IsJson == IsString(C22_Body) /\ includes(C22_ContentType, TYPE_JSON)
C22_Malformed == C22_IsJson /\ trim(C22_Body.s) # <<>> /\ ~JSONValid(trim(C22_Body.s))

\* C22 as stated: a textual body whose declared content type includes the JSON
\* marker is trimmed and yields null when empty after trimming, otherwise its
\* JSON parse; every other body (textual with a non-JSON content type, or
\* non-textual) is returned unchanged, character for character.
C22_AsStated ==
    (C22_Case /\ ~C22_Malformed)
    => outcome = Resolved(IF C22_IsJson
                          THEN (IF trim(C22_Body.s) = <<>> THEN Null
                                ELSE Num(trim(C22_Body.s)))
                          ELSE C22_Body)

\* C22 (amended): every textual body is trimmed, whatever its content type; if
\* the content type includes the JSON marker the trimmed text yields null when
\* empty and otherwise its JSON parse (a malformed text makes the decoder
\* throw), else the trimmed text itself is the result; a non-textual body is
\* returned unchanged.
C22_Decoder ==
    C22_Case
    => IF C22_Malformed
       THEN outcome.kind = "rejected" /\ apiErr = handleException(SyntaxError)
       ELSE outcome = Resolved(IF ~IsString(C22_Body) THEN C22_Body
                               ELSE IF ~C22_IsJson THEN Str(trim(C22_Body.s))
                               ELSE IF trim(C22_Body.s) = <<>> THEN Null
                               ELSE Num(trim(C22_Body.s)))

\* a text/plain body of one blank is returned as the empty text
C22_Witness ==
    /\ C22_Case
    /\ C22_Body = Str(<<" ">>)
    /\ C22_ContentType = "text/plain"
    /\ outcome = Resolved(Str(<<>>))

\* ------------------------------------------------------------------ C23
C23_Case == call.op \in {"post", "put", "del", "download"} /\ pc = "awaitTransport"

\* C23 as stated: for post/put/del/download, whenever the caller provides a
\* body (any value other than null), the descriptor handed to the transport
\* carries exactly that value as its body, for every provided value.
C23_AsStated ==
    (C23_Case /\ args.data # DataNull) => axiosConf.data = args.data

\* C23 (amended): for post/put/del/download, whenever the caller provides a
\* truthy body, the descriptor handed to the transport carries exactly that
\* value as its body, unserialized and unmodified; a falsy value (null, and
\* also "", 0 or false) is not attached: the descriptor has no body.
C23_BodyVerbatim ==
    C23_Case
    => axiosConf.data = IF args.data \in {DataNull, DataFalsy} THEN NoData ELSE args.data

C23_Witness ==
    /\ call.op = "put"
    /\ pc = "awaitTransport"
    /\ args.data = DataPayload
    /\ axiosConf.data = DataPayload

\* ------------------------------------------------------------------ C24
\* a verb or upload call settled on a response with status >= 400, returned
\* by the transport or raised by it as an HTTP error
C24_Case ==
    /\ call.op \in FetchOps
    /\ pc = "done"
    /\ result.kind # "none"
    /\ Received # NoResponse
    /\ Received.status >= 400

\* the body as fetchData decodes it (line 112)
C24_Decoded ==
    parseResponseData(Received.data, nullish(Received.headers.CT, TYPE_JSON))

\* C24 as stated: for every response with status >= 400, neither the data
\* processor nor the post-response hook is invoked, and (for a response the
\* transport returned to fetchData) the decoded body becomes the details of
\* the ApiError keyed by that status.
C24_AsStated ==
    C24_Case
    => /\ Count(log, "dataProcessor") = 0
       /\ Count(log, "postInvoke") = 0
       /\ result.kind = "response"
            => /\ IsApiError(apiErr)
               /\ apiErr.status = Received.status
               /\ C24_Decoded.ok => apiErr.details = C24_Decoded.val

\* ------------------------------------------------------------------ C25
\* the transport returned a response with status in [300,400) to a verb or
\* upload call
C25_Case ==
    /\ call.op \in FetchOps
    /\ pc = "done"
    /\ result.kind = "response"
    /\ result.response.status >= 300
    /\ result.response.status < 400

\* C25 as stated: when the transport returns a response with status in
\* [300,400) to get/post/put/del/upload, the data processor, the post-response
\* hook and the error hook are not invoked, no ApiError is raised, and the
\* call resolves with no value (undefined) regardless of the response body.
C25_AsStated ==
    C25_Case
    => /\ Count(log, "dataProcessor") = 0
       /\ Count(log, "postInvoke") = 0
       /\ Count(log, "errorHandler") = 0
       /\ Count(log, "ApiError") = 0
       /\ apiErr = NoError
       /\ outcome = Resolved(Undefined)

\* ------------------------------------------------------------------ C26
\* the transport raised a failure to a verb, upload or download call
C26_Case == call.op \in RaisingOps /\ pc = "done" /\ result.kind = "reason"

C27_Case ==
    /\ call.op = "download"
    /\ pc = "done"
    /\ result.kind = "response"
    /\ result.response.status < 300
    /\ Count(log, "save") = 1
    /\ saved = NotSaved

\* C27 as stated: when the save fails after download received a successful
\* response, that failure is propagated to the caller as it was raised: not
\* converted into an ApiError, not passed through the error normalizer, not
\* handed to the error hook.
C27_AsStated ==
    C27_Case
    => /\ outcome = Rejected(SaveError)
       /\ Count(log, "ApiError") = 0
       /\ Count(log, "errorHandler") = 0

\* C27 (amended): when the save fails after download received a successful
\* response, the failure is caught like a failure of the request: the error
\* normalizer converts it into an ApiError with status -1 and details
\* {code: 106, configError: true, originalMessage: the failure's message,
\* message}, the error hook (if present) is invoked once with it, and the call
\* rejects with that ApiError, or with the hook's exception when the hook
\* throws.
C27_SaveFailureNormalized ==
    C27_Case
    => /\ apiErr = ApiError(-1, [code |-> 106,
                                 message |-> <<"Configration error: ", SaveError.message>>,
                                 originalMessage |-> SaveError.message,
                                 configError |-> TRUE])
       /\ Count(log, "ApiError") = 1
       /\ Count(log, "errorHandler") = (IF client.errorHandler THEN 1 ELSE 0)
       /\ outcome = IF hookRet = "throws" THEN Rejected(Thrown("errorHandler"))
                    ELSE Rejected(apiErr)

C27_Witness ==
    /\ C27_Case
    /\ client.errorHandler
    /\ hookRet = "false"
    /\ apiErr.status = -1
    /\ apiErr.details.code = 106
    /\ outcome = Rejected(apiErr)
    /\ log[Len(log)] = "throw"

\* ------------------------------------------------------------------ C28
\* a verb or upload call received a response with status < 300 whose body
\* decodes, and failed all the same: the data processor or the post-response
\* hook threw
C28_Case ==
    /\ call.op \in FetchOps
    /\ pc = "done"
    /\ result.kind = "response"
    /\ result.response.status < 300
    /\ parseResponseData(result.response.data,
                         nullish(result.response.headers.CT, TYPE_JSON)).ok
    /\ outcome.kind = "rejected"

C28_ConfigKind ==
    /\ IsApiError(apiErr)
    /\ apiErr.status = -1
    /\ apiErr.details.code = 106
    /\ apiErr.details.configError
    /\ apiErr.details.originalMessage \in {"dataProcessor", "postInvoke"}

\* C28 as stated: when the data processor or the post-response hook throws
\* while handling a response with status < 300, get/post/put/del/upload invoke
\* the error hook (if configured) once and reject with an ApiError of status
\* -1 whose details carry code 106 and configError true.
C28_AsStated ==
    C28_Case
    => /\ C28_ConfigKind
       /\ Count(log, "errorHandler") = (IF client.errorHandler THEN 1 ELSE 0)
       /\ outcome = Rejected(apiErr)

\* C28 (amended): when the data processor or the post-response hook throws
\* while handling a response with status < 300, get/post/put/del/upload build
\* an ApiError of status -1 whose details carry code 106 and configError true
\* (the error kind of a request that was never sent), invoke the error hook,
\* if one is configured, once with it, and reject with that ApiError, unless
\* the error hook throws: then the call rejects with the hook's exception.
C28_ThrowingStepIsConfigError ==
    C28_Case
    => /\ C28_ConfigKind
       /\ Count(log, "dataProcessor") + Count(log, "postInvoke") >= 1
       /\ Count(log, "errorHandler") = (IF client.errorHandler THEN 1 ELSE 0)
       /\ outcome = IF hookRet = "throws" THEN Rejected(Thrown("errorHandler"))
                    ELSE Rejected(apiErr)

\* the data processor threw on a 200 response
C28_Witness ==
    /\ C28_Case
    /\ call.op = "upload"
    /\ call.hasProc
    /\ ~client.postInvoke
    /\ result.response.status = 200
    /\ apiErr.details.originalMessage = "dataProcessor"
    /\ apiErr.details.code = 106
    /\ outcome = Rejected(apiErr)

\* ------------------------------------------------------------------ C29
\* C29: asyncUpload never invokes the client's configured error hook and never
\* applies the client's post-response hook, in any outcome (success, HTTP
\* error, transport failure, cancellation): what the transfer produced reaches
\* the per-call callback object only (the response body goes to onCompleted,
\* the ApiError to handleError, and the call never rejects with the ApiError).
C29_NoClientHooks ==
    call.op = "asyncUpload"
    => /\ Count(log, "errorHandler") = 0
       /\ Count(log, "postInvoke") = 0
       /\ hookRet = "none"
       /\ pending = Undefined
       /\ pc # "awaitPost"
       /\ (pc = "done" /\ IsApiError(apiErr)) => outcome # Rejected(apiErr)
       /\ (pc = "done" /\ errorWith # NoError) => errorWith = apiErr
       /\ (pc = "done" /\ completedWith # NotCalled)
            => completedWith = result.response.data

\* an HTTP error on a client that has both hooks
C29_Witness ==
    /\ call.op = "asyncUpload"
    /\ pc = "done"
    /\ client.errorHandler
    /\ client.postInvoke
    /\ result.kind = "reason"
    /\ result.reason.response.status = 404
    /\ IsApiError(errorWith)
    /\ errorWith.status = 404
    /\ Count(log, "handleError") = 1
    /\ Count(log, "errorHandler") = 0

\* ------------------------------------------------------------------ C30
\* an upload of the RestService revision failed: the transport raised
C30_Case == call.op = "upload" /\ pc = "done" /\ result.kind = "reason"

\* the ApiError the request routine produced for the failure
C30_Produced == RestService_handleException(result.reason)

\* C30 as stated: in the RestService revision, a failed upload invokes the
\* error hook exactly once and rejects with the very ApiError the request
\* routine (fetchData) produced, keeping its status and details (an HTTP 404
\* failure rejects with status 404, not with a re-normalized error).
C30_AsStated ==
    C30_Case
    => /\ Count(log, "errorHandler") = (IF client.errorHandler THEN 1 ELSE 0)
       /\ outcome.kind = "rejected"
       /\ outcome.err \in {C30_Produced, Thrown("errorHandler")}

====
